---- MODULE Spec2Model ----
(***************************************************************************)
(* Verification model of route/v2/appstore.go (CasaOS-AppManagement):      *)
(* the app-store registry handlers, the catalog listing query with its     *)
(* filters, and the category listing.                                      *)
(*                                                                         *)
(* Go strings are sequences of one-character strings; a Go pointer is a    *)
(* sequence of length 0 (nil) or 1 (the pointee).                          *)
(***************************************************************************)
EXTENDS Integers, Sequences, FiniteSets, TLC

(* ------------------------------ bounds -------------------------------- *)

\* Most sources the registry holds in the model.
MaxStores == 3

(* ------------------------------ strings ------------------------------- *)

Upper == <<"A","B","C","D","E","F","G","H","I","J","K","L","M",
           "N","O","P","Q","R","S","T","U","V","W","X","Y","Z">>

Lower == <<"a","b","c","d","e","f","g","h","i","j","k","l","m",
           "n","o","p","q","r","s","t","u","v","w","x","y","z">>

\* The characters of the model in ascending byte order.
Ascii == Upper \o <<"_">> \o Lower

ByteOf(c) == CHOOSE i \in 1..Len(Ascii) : Ascii[i] = c

ToLowerChar(c) ==
  IF \E i \in 1..Len(Upper) : Upper[i] = c
  THEN Lower[CHOOSE i \in 1..Len(Upper) : Upper[i] = c]
  ELSE c

\* strings.ToLower
ToLower(s) == [i \in 1..Len(s) |-> ToLowerChar(s[i])]

\* strings.Compare(a, b) < 0: byte-wise lexicographic order.
RECURSIVE StrLess(_, _)
StrLess(a, b) ==
  IF b = <<>> THEN FALSE
  ELSE IF a = <<>> THEN TRUE
  ELSE IF a[1] # b[1] THEN ByteOf(a[1]) < ByteOf(b[1])
  ELSE StrLess(Tail(a), Tail(b))

\* Go pointers.
Nil == <<>>
Ptr(v) == <<v>>
Deref(p) == p[1]

(* --------------------------- HTTP statuses ---------------------------- *)

StatusOK == 200
StatusBadRequest == 400
StatusNotFound == 404
StatusInternalServerError == 500

(* ------------------------------- state -------------------------------- *)

VARIABLES
  \* the registry handlers
  appStoreList,    \* the registry: the service's ordered list of source URLs
  req,             \* each request slot: its position in the handler and locals
  \* the catalog listing query
  params,          \* the query's parameters
  catalogFetch,    \* nil while Catalog() was not called, else what it returned
  recommendFetch,  \* nil while Recommend() was not called, else what it returned
  installedFetch,  \* nil while Compose().List() was not called, else what it returned
  response,        \* nil while the query runs, else the response sent
  \* the two catalog filters applied in both orders
  filterArgs,      \* the catalog, the category and the author type
  filtered,        \* nil, else the result of each order
  \* the category listing
  categoryFetch,   \* what CategoryMap() returns
  categoryResponse \* nil while the query runs, else the response sent

regvars == <<appStoreList, req>>
queryvars == <<params, catalogFetch, recommendFetch, installedFetch, response>>
filtervars == <<filterArgs, filtered>>
categoryvars == <<categoryFetch, categoryResponse>>

vars == <<regvars, queryvars, filtervars, categoryvars>>

(* ------------------------------ registry ------------------------------ *)

\* Source URLs the requests use: two casings of one URL and another URL.
URLs == { <<"s","t","o","r","e">>, <<"S","T","O","R","E">>, <<"m","i","r","r","o","r">> }

\* What a request may carry as params.Url: nil, "", or a URL.
UrlParams == {Nil, Ptr(<<>>)} \cup {Ptr(u) : u \in URLs}

\* The requests in flight at a time: two, as each race of the handlers is
\* one between two requests.
Reqs == {1, 2}


\* A request slot. pc: "idle"; "register" and "unregister" (the checks passed,
\* the service not yet called); "registering" (the response is sent and the
\* asynchronous registration runs); "done" (the response is sent).
\* Of the list read at line 65 the handler uses the length alone; `source` is
\* the element that list held at index id.
Idle == [pc |-> "idle", url |-> <<>>, id |-> 0, source |-> <<>>,
         status |-> 0, message |-> "none"]

Response(st, msg) == [Idle EXCEPT !.pc = "done", !.status = st, !.message = msg]

\* s without its element at zero-based index i.
RemoveAt(s, i) == [k \in 1..(Len(s) - 1) |-> IF k <= i THEN s[k] ELSE s[k + 1]]

\* lines 37-39: lo.ContainsBy over the list, comparing lower-cased URLs.
IsExist(list, url) ==
  \E i \in 1..Len(list) : ToLower(list[i]) = ToLower(url)

\* The range check with its upper comparison off by one.
IdNotFound_OffByOne(id, list) == id < 0 \/ id > Len(list)

\* line 67
IdNotFound(id, list) == id < 0 \/ id >= Len(list)

\* The last-source check testing for an empty list.
IsLastAppStore_Empty(list) == Len(list) = 0

\* line 72
IsLastAppStore(list) == Len(list) = 1

(* RegisterAppStore, lines 31-44: the URL check and the existence check     *)
(* against the list the service returns at line 37.                         *)
RegisterCheck(r, p) ==
  /\ req[r].pc \in {"idle", "done"}
  /\ IF p = Nil \/ Deref(p) = <<>>
     THEN req' = [req EXCEPT ![r] = Response(StatusBadRequest, "appstore url is required")]
     ELSE IF IsExist(appStoreList, Deref(p))
     THEN req' = [req EXCEPT ![r] = Response(StatusOK, "appstore is already registered")]
     ELSE req' = [req EXCEPT ![r] = [Idle EXCEPT !.pc = "register", !.url = Deref(p)]]
  /\ UNCHANGED <<appStoreList, queryvars, filtervars, categoryvars>>

\* The service's RegisterAppStore as the handler sees it at line 48: it
\* returns nil once validation and persistence are under way, ErrNotAppStore,
\* or another error.
RegisterResults == {"nil", "ErrNotAppStore", "error"}

(* RegisterAppStore, lines 46-61: the call of the service and the response. *)
RegisterCall(r, err) ==
  /\ req[r].pc = "register"
  /\ IF err = "nil"
     THEN req' = [req EXCEPT ![r] =
                    [Response(StatusOK, "trying to register app store asynchronously")
                       EXCEPT !.pc = "registering", !.url = req[r].url]]
     ELSE IF err = "ErrNotAppStore"
     THEN req' = [req EXCEPT ![r] = Response(StatusBadRequest, "not an appstore")]
     ELSE req' = [req EXCEPT ![r] = Response(StatusInternalServerError, "error")]
  /\ UNCHANGED <<appStoreList, queryvars, filtervars, categoryvars>>

\* The asynchronous registration started by request r completes: the source
\* joins the list.
RegisterPersist(r) ==
  /\ req[r].pc = "registering"
  /\ Len(appStoreList) < MaxStores
  /\ appStoreList' = Append(appStoreList, req[r].url)
  /\ req' = [req EXCEPT ![r].pc = "done", ![r].url = <<>>]
  /\ UNCHANGED <<queryvars, filtervars, categoryvars>>

\* The asynchronous registration started by request r fails: only the log
\* tells.
RegisterAbandon(r) ==
  /\ req[r].pc = "registering"
  /\ req' = [req EXCEPT ![r].pc = "done", ![r].url = <<>>]
  /\ UNCHANGED <<appStoreList, queryvars, filtervars, categoryvars>>

(* UnregisterAppStore, lines 64-75: the list is read and both checks run    *)
(* against that copy.                                                       *)
UnregisterCheck(r, id) ==
  /\ req[r].pc \in {"idle", "done"}
  /\ IF IdNotFound(id, appStoreList)
     THEN req' = [req EXCEPT ![r] = Response(StatusNotFound, "app store id is not found")]
     ELSE IF IsLastAppStore(appStoreList)
     THEN req' = [req EXCEPT ![r] =
                    Response(StatusBadRequest, "cannot unregister the last app store")]
     ELSE req' = [req EXCEPT ![r] = [Idle EXCEPT !.pc = "unregister", !.id = id,
                                       !.source = appStoreList[id + 1]]]
  /\ UNCHANGED <<appStoreList, queryvars, filtervars, categoryvars>>

\* The service's UnregisterAppStore(uint(id)): the source at that index of
\* the current list leaves it; an index the list does not have is an error.
ServiceUnregisterAppStore(id, ok) ==
  IF ok /\ id < Len(appStoreList)
  THEN RemoveAt(appStoreList, id)
  ELSE appStoreList

(* UnregisterAppStore, lines 77-84: the call of the service and the         *)
(* response.                                                                *)
UnregisterCall(r, ok) ==
  /\ req[r].pc = "unregister"
  /\ appStoreList' = ServiceUnregisterAppStore(req[r].id, ok)
  /\ IF ok /\ req[r].id < Len(appStoreList)
     THEN req' = [req EXCEPT ![r] = Response(StatusOK, "app store is unregistered.")]
     ELSE req' = [req EXCEPT ![r] = Response(StatusInternalServerError, "error")]
  /\ UNCHANGED <<queryvars, filtervars, categoryvars>>

\* Registries the program starts from: at least one source, no URL twice.
InitialRegistries ==
  { l \in UNION { [1..n -> URLs] : n \in 1..MaxStores } :
      \A i, j \in 1..Len(l) : i # j => ToLower(l[i]) # ToLower(l[j]) }

Ids == -1..MaxStores

RegistryInit ==
  /\ appStoreList \in InitialRegistries
  /\ req = [r \in Reqs |-> Idle]

RegistryNext ==
  \/ \E r \in Reqs, p \in UrlParams : RegisterCheck(r, p)
  \/ \E r \in Reqs, err \in RegisterResults : RegisterCall(r, err)
  \/ \E r \in Reqs : RegisterPersist(r)
  \/ \E r \in Reqs : RegisterAbandon(r)
  \/ \E r \in Reqs, id \in Ids : UnregisterCheck(r, id)
  \/ \E r \in Reqs, ok \in BOOLEAN : UnregisterCall(r, ok)

(* ------------------------- the catalog query -------------------------- *)

\* Most apps a catalog holds in the model.
MaxApps == 2

\* Store-app identifiers: the keys of the catalog.
AppIDs == 1..MaxApps

\* codegen.StoreAppAuthorType: the three author types.
Official == <<"o","f","f","i","c","i","a","l">>
ByCasaos == <<"b","y","_","c","a","s","a","o","s">>
Community == <<"c","o","m","m","u","n","i","t","y">>

\* A compose app of the catalog: the category its store info carries, what
\* AuthorType() returns, and whether StoreInfo() fails on it.
ComposeApps ==
  [category : { <<"M","e","d","i","a">>, <<"t","o","o","l","s">> },
   authorType : {Official, Community},
   storeInfoErr : BOOLEAN]

Catalogs == UNION { [S -> ComposeApps] : S \in SUBSET AppIDs }

\* codegen.ComposeAppStoreInfo{}: the zero value.
EmptyStoreInfo == [category |-> <<>>, authorType |-> <<>>, name |-> 0]

\* What StoreInfo() yields on success.
StoreInfoOf(id, composeApp) ==
  [category |-> composeApp.category, authorType |-> composeApp.authorType, name |-> id]

\* lo.PickBy: the entries of the catalog under the keys the predicate keeps.
PickBy(catalog, kept) == [id \in kept |-> catalog[id]]

\* The category filter keeping the first match alone.
FilterCatalogByCategory_FirstMatch(catalog, category) ==
  IF category = <<>> THEN catalog
  ELSE LET kept == { id \in DOMAIN catalog :
                       IF catalog[id].storeInfoErr THEN FALSE
                       ELSE ToLower(catalog[id].category) = ToLower(category) }
       IN PickBy(catalog, { id \in kept : \A other \in kept : id <= other })

\* lines 270-283
FilterCatalogByCategory(catalog, category) ==
  IF category = <<>> THEN catalog
  ELSE PickBy(catalog, { id \in DOMAIN catalog :
                           IF catalog[id].storeInfoErr THEN FALSE
                           ELSE ToLower(catalog[id].category) = ToLower(category) })

\* The author-type filter without its guard against unknown author types.
FilterCatalogByAuthorType_NoGuard(catalog, authorType) ==
  IF authorType \in {Official, ByCasaos, Community}
  THEN PickBy(catalog, { id \in DOMAIN catalog : catalog[id].authorType = authorType })
  ELSE catalog

\* lines 285-298
FilterCatalogByAuthorType(catalog, authorType) ==
  IF authorType \notin {Official, ByCasaos, Community}
  THEN <<>>
  ELSE PickBy(catalog, { id \in DOMAIN catalog : catalog[id].authorType = authorType })

\* lines 300-304
FilterCatalogByAppStoreID(catalog, appStoreIDs) ==
  PickBy(catalog, { id \in DOMAIN catalog : id \in appStoreIDs })

\* The recommendation test taking any given flag for true.
WantsRecommend_AnyFlag(p) == p.Recommend # Nil

\* line 104
WantsRecommend(p) == p.Recommend # Nil /\ Deref(p.Recommend)

\* codegen.ComposeAppStoreInfoListParams
QueryParams ==
  [Category : {Nil, Ptr(<<>>), Ptr(<<"m","e","d","i","a">>)},
   AuthorType : {Nil, Ptr(<<"O","f","f","i","c","i","a","l">>), Ptr(Community),
                 Ptr(<<"u","n","k","n","o","w","n">>)},
   Recommend : {Nil, Ptr(TRUE), Ptr(FALSE)}]

\* What V2AppStore().Catalog() may return.
CatalogResults ==
  {[err |-> TRUE, catalog |-> <<>>]} \cup {[err |-> FALSE, catalog |-> c] : c \in Catalogs}

\* What V2AppStore().Recommend() may return.
RecommendResults ==
  {[err |-> TRUE, list |-> {}]} \cup {[err |-> FALSE, list |-> l] : l \in SUBSET AppIDs}

\* An installed compose app: StoreInfo(false) fails, returns nil, returns a
\* store info without StoreAppID, or one with it.
InstalledApp(err, storeInfo) == [storeInfoErr |-> err, storeInfo |-> storeInfo]

\* What Compose().List() may return: an error, or the installed apps by name.
InstalledResults ==
  { [err |-> TRUE, apps |-> <<>>],
    [err |-> FALSE, apps |-> <<>>],
    [err |-> FALSE, apps |-> << InstalledApp(TRUE, Nil),
                                InstalledApp(FALSE, Ptr([StoreAppID |-> Ptr(1)])) >>],
    [err |-> FALSE, apps |-> << InstalledApp(FALSE, Nil),
                                InstalledApp(FALSE, Ptr([StoreAppID |-> Nil])),
                                InstalledApp(FALSE, Ptr([StoreAppID |-> Ptr(2)])) >>] }


\* lines 117-125: lo.MapValues over the filtered catalog.
StoreInfoList(catalog) ==
  [id \in DOMAIN catalog |->
     IF catalog[id].storeInfoErr THEN EmptyStoreInfo
     ELSE StoreInfoOf(id, catalog[id])]

\* lines 142-154: lo.FilterMap over the installed apps; the order of the
\* identifiers follows Go's map iteration and is left out.
InstalledIDs(apps) ==
  { Deref(Deref(apps[i].storeInfo).StoreAppID) :
      i \in { k \in 1..Len(apps) :
                /\ ~apps[k].storeInfoErr
                /\ apps[k].storeInfo # Nil
                /\ Deref(apps[k].storeInfo).StoreAppID # Nil } }

\* lines 95-102: the category and the author-type filter, each when given.
FilteredByParams(catalog, p) ==
  LET byCategory == IF p.Category # Nil
                    THEN FilterCatalogByCategory(catalog, Deref(p.Category))
                    ELSE catalog
  IN IF p.AuthorType # Nil
     THEN FilterCatalogByAuthorType(byCategory, ToLower(Deref(p.AuthorType)))
     ELSE byCategory

ServerError == [status |-> StatusInternalServerError, data |-> Nil, message |-> "error"]

\* lines 116-158: the list, the installed apps and the response.
ListAndInstalled(catalog) ==
  \E ir \in InstalledResults :
    /\ installedFetch' = Ptr(ir)
    /\ response' = Ptr(
         IF ir.err
         THEN [status |-> StatusOK, message |-> "error",
               data |-> Ptr([List |-> Ptr(StoreInfoList(catalog)), Installed |-> Nil])]
         ELSE [status |-> StatusOK, message |-> "none",
               data |-> Ptr([List |-> Ptr(StoreInfoList(catalog)),
                             Installed |-> Ptr(InstalledIDs(ir.apps))])])

(* ComposeAppStoreInfoList, lines 87-159.                                   *)
ComposeAppStoreInfoList ==
  /\ response = Nil
  /\ \E cr \in CatalogResults :
       /\ catalogFetch' = Ptr(cr)
       /\ IF cr.err
          THEN /\ response' = Ptr(ServerError)
               /\ UNCHANGED <<recommendFetch, installedFetch>>
          ELSE IF WantsRecommend(params)
          THEN \E rr \in RecommendResults :
                 /\ recommendFetch' = Ptr(rr)
                 /\ IF rr.err
                    THEN /\ response' = Ptr(ServerError)
                         /\ UNCHANGED installedFetch
                    ELSE ListAndInstalled(
                           FilterCatalogByAppStoreID(
                             FilteredByParams(cr.catalog, params), rr.list))
          ELSE /\ UNCHANGED recommendFetch
               /\ ListAndInstalled(FilteredByParams(cr.catalog, params))
  /\ UNCHANGED <<params, regvars, filtervars, categoryvars>>

QueryInit ==
  /\ params \in QueryParams
  /\ catalogFetch = Nil
  /\ recommendFetch = Nil
  /\ installedFetch = Nil
  /\ response = Nil

QueryNext == ComposeAppStoreInfoList

(* ----------------- the two filters, in both orders --------------------- *)

\* Arguments of FilterCatalogByCategory.
FilterCategories ==
  { <<>>, <<"m","e","d","i","a">>, <<"T","O","O","L","S">>, <<"g","a","m","e","s">> }

\* Arguments of FilterCatalogByAuthorType.
FilterAuthorTypes ==
  { Official, ByCasaos, Community, <<"O","f","f","i","c","i","a","l">>, <<>> }

\* FilterCatalogByCategory then FilterCatalogByAuthorType, and the reverse.
ApplyFilters ==
  /\ filtered = Nil
  /\ filtered' = Ptr(
       [categoryThenAuthor |->
          FilterCatalogByAuthorType(
            FilterCatalogByCategory(filterArgs.catalog, filterArgs.category),
            filterArgs.authorType),
        authorThenCategory |->
          FilterCatalogByCategory(
            FilterCatalogByAuthorType(filterArgs.catalog, filterArgs.authorType),
            filterArgs.category)])
  /\ UNCHANGED <<filterArgs, regvars, queryvars, categoryvars>>

FilterInit ==
  /\ filterArgs \in [catalog : Catalogs, category : FilterCategories,
                     authorType : FilterAuthorTypes]
  /\ filtered = Nil

FilterNext == ApplyFilters

(* ------------------------- the category listing ------------------------ *)

\* Largest app count of a category in the model.
MaxCount == 2

\* Category names, here in ascending byte order.
CategoryNames ==
  << <<"A","b">>, <<"A","l","l">>, <<"B">>, <<"a">> >>

NameSet == { CategoryNames[i] : i \in 1..Len(CategoryNames) }

\* codegen.CategoryInfo
CategoryInfo(name, count, id, font, description) ==
  [Name |-> name, Count |-> count, ID |-> id, Font |-> font, Description |-> description]

\* The category maps the service may return, keyed by category name; the
\* count of a category may be absent.
CategoryMaps ==
  UNION { [S -> {Nil} \cup {Ptr(n) : n \in 0..MaxCount}] : S \in SUBSET NameSet }

\* What AppStoreManagement().CategoryMap() may return.
CategoryMapResults ==
  {[err |-> TRUE, counts |-> <<>>]} \cup {[err |-> FALSE, counts |-> m] : m \in CategoryMaps}

\* line 238: lo.Values(categoryMap), in the order the map is iterated in.
Values(counts, order) ==
  [i \in 1..Len(order) |->
     CategoryInfo(Ptr(order[i]), counts[order[i]], Nil, "font", "description")]

\* The orders a Go map of these keys may be iterated in.
Orders(S) ==
  { o \in [1..Cardinality(S) -> S] : \A i, j \in 1..Cardinality(S) : i # j => o[i] # o[j] }

\* line 240: sort.Slice by strings.Compare of the names.
RECURSIVE SortByName(_)
SortByName(list) ==
  IF list = <<>> THEN <<>>
  ELSE LET rest == SortByName(Tail(list))
           x == Head(list)
           n == Cardinality({k \in 1..Len(rest) : StrLess(Deref(rest[k].Name), Deref(x.Name))})
       IN SubSeq(rest, 1, n) \o <<x>> \o SubSeq(rest, n + 1, Len(rest))

\* lines 242-249
RECURSIVE TotalCount(_)
TotalCount(list) ==
  IF list = <<>> THEN 0
  ELSE IF Head(list).Count = Nil THEN TotalCount(Tail(list))
  ELSE Deref(Head(list).Count) + TotalCount(Tail(list))

\* lines 251-258
WithAll(list, totalCount) ==
  <<CategoryInfo(Ptr(<<"A","l","l">>), Ptr(totalCount), Nil, "apps", "All apps")>> \o list

\* lines 260-263
WithOrdinals(list) == [i \in 1..Len(list) |-> [list[i] EXCEPT !.ID = Ptr(i - 1)]]

\* The listing with the ordinals given before "All" is put in front.
CategoryListData_OrdinalsFirst(values) ==
  WithAll(WithOrdinals(SortByName(values)), TotalCount(SortByName(values)))

\* lines 238-263
CategoryListData(values) ==
  WithOrdinals(WithAll(SortByName(values), TotalCount(SortByName(values))))

(* CategoryList, lines 231-268.                                             *)
CategoryList ==
  /\ categoryResponse = Nil
  /\ IF categoryFetch.err
     THEN categoryResponse' = Ptr([status |-> StatusInternalServerError, data |-> Nil])
     ELSE \E order \in Orders(DOMAIN categoryFetch.counts) :
            categoryResponse' =
              Ptr([status |-> StatusOK,
                   data |-> Ptr(CategoryListData(Values(categoryFetch.counts, order)))])
  /\ UNCHANGED <<categoryFetch, regvars, queryvars, filtervars>>

CategoryInit ==
  /\ categoryFetch \in CategoryMapResults
  /\ categoryResponse = Nil

CategoryNext == CategoryList

(* --------------------------- specifications --------------------------- *)

\* The variables of a part of the program that is not running.
RegistryAtRest ==
  /\ appStoreList = << <<"s","t","o","r","e">> >>
  /\ req = [r \in Reqs |-> Idle]

QueryAtRest ==
  /\ params = [Category |-> Nil, AuthorType |-> Nil, Recommend |-> Nil]
  /\ catalogFetch = Nil
  /\ recommendFetch = Nil
  /\ installedFetch = Nil
  /\ response = Nil

FilterAtRest ==
  /\ filterArgs = [catalog |-> <<>>, category |-> <<>>, authorType |-> <<>>]
  /\ filtered = Nil

CategoryAtRest ==
  /\ categoryFetch = [err |-> FALSE, counts |-> <<>>]
  /\ categoryResponse = Nil

\* The registry under concurrent requests.
Init == RegistryInit /\ QueryAtRest /\ FilterAtRest /\ CategoryAtRest

Next == RegistryNext

Spec == Init /\ [][Next]_vars

\* One catalog listing query.
InitQuery == QueryInit /\ RegistryAtRest /\ FilterAtRest /\ CategoryAtRest

SpecQuery == InitQuery /\ [][QueryNext]_vars

\* The two filters on one catalog.
InitFilter == FilterInit /\ RegistryAtRest /\ QueryAtRest /\ CategoryAtRest

SpecFilter == InitFilter /\ [][FilterNext]_vars

\* One category listing.
InitCategory == CategoryInit /\ RegistryAtRest /\ QueryAtRest /\ FilterAtRest

SpecCategory == InitCategory /\ [][CategoryNext]_vars

(* ------------------------- claims: the registry ------------------------ *)

\* C1: in every reachable state the registry holds at least one source.
C1_AtLeastOneSource == Len(appStoreList) >= 1

\* C2, as claimed: on a registry of exactly one source UnregisterAppStore with
\* any index answers with the last-source rejection and changes nothing.
C2_AnyIndexLastSourceRejected ==
  [][\A r \in Reqs, id \in Ids :
       (Len(appStoreList) = 1 /\ req'[r] # req[r] /\ UnregisterCheck(r, id)) =>
          /\ req'[r].pc = "done"
          /\ req'[r].status = StatusBadRequest
          /\ req'[r].message = "cannot unregister the last app store"
          /\ appStoreList' = appStoreList]_vars

\* C2, amended: on a registry of exactly one source UnregisterAppStore fails
\* and changes nothing: index 0 with the last-source rejection (400), any
\* other index as not found (404).
C2_OneSourceUnregisterRejected ==
  [][\A r \in Reqs, id \in Ids :
       (Len(appStoreList) = 1 /\ req'[r] # req[r] /\ UnregisterCheck(r, id)) =>
          /\ req'[r].pc = "done"
          /\ id = 0 => /\ req'[r].status = StatusBadRequest
                       /\ req'[r].message = "cannot unregister the last app store"
          /\ id # 0 => /\ req'[r].status = StatusNotFound
                       /\ req'[r].message = "app store id is not found"
          /\ appStoreList' = appStoreList]_vars

\* C2 witness: the last-source rejection was given on a one-source registry.
C2_Witness ==
  \E r \in Reqs : /\ req[r].pc = "done"
                  /\ req[r].message = "cannot unregister the last app store"
                  /\ Len(appStoreList) = 1

C4_NoDuplicateSources ==
  \A i, j \in 1..Len(appStoreList) :
     i # j => ToLower(appStoreList[i]) # ToLower(appStoreList[j])

\* C10: a successful UnregisterAppStore(i) removes the source that was at
\* index i of the list its checks were made against.
C10_RemovesCheckedSource ==
  [][\A r \in Reqs :
       (req[r].pc = "unregister" /\ req'[r].pc = "done" /\ req'[r].status = StatusOK) =>
          /\ req[r].id < Len(appStoreList)
          /\ appStoreList[req[r].id + 1] = req[r].source]_vars

(* ----------------------- claims: the catalog query --------------------- *)

KnownAuthorTypes == {Official, ByCasaos, Community}

\* The query has answered and Catalog() had not failed.
AnsweredOverCatalog == response # Nil /\ ~Deref(catalogFetch).err

\* The entry passes the category filter the query asks for, if any.
CategoryAdmits(id) ==
  \/ params.Category = Nil
  \/ Deref(params.Category) = <<>>
  \/ /\ ~Deref(catalogFetch).catalog[id].storeInfoErr
     /\ ToLower(Deref(catalogFetch).catalog[id].category) = ToLower(Deref(params.Category))

\* The entry is recommended, if the recommendation list was fetched.
RecommendAdmits(id) ==
  recommendFetch = Nil \/ id \in Deref(recommendFetch).list

\* For a known author type (in any casing) the listing holds exactly the
\* entries of that author type that the other filters admit.
KnownAuthorTypeExact ==
  (/\ AnsweredOverCatalog
   /\ params.AuthorType # Nil
   /\ ToLower(Deref(params.AuthorType)) \in KnownAuthorTypes
   /\ Deref(response).status = StatusOK) =>
     DOMAIN Deref(Deref(Deref(response).data).List) =
       { id \in DOMAIN Deref(catalogFetch).catalog :
           /\ Deref(catalogFetch).catalog[id].authorType = ToLower(Deref(params.AuthorType))
           /\ CategoryAdmits(id)
           /\ RecommendAdmits(id) }

\* C5, as claimed: for an author type that, lower-cased, is none of the three
\* known ones, the query succeeds with an empty list whatever the catalog and
\* the other arguments; for a known one the list is exactly its entries.
C5_UnknownAuthorTypeAlwaysEmpty ==
  /\ (/\ AnsweredOverCatalog
      /\ params.AuthorType # Nil
      /\ ToLower(Deref(params.AuthorType)) \notin KnownAuthorTypes) =>
        /\ Deref(response).status = StatusOK
        /\ Deref(response).data # Nil
        /\ Deref(Deref(Deref(response).data).List) = <<>>
  /\ KnownAuthorTypeExact

\* C5, amended: for an unknown author type the query succeeds with an empty
\* list unless the recommended flag is true and the recommendation list
\* cannot be fetched, which ends the query in a server error; for a known
\* one the list is exactly its entries.
C5_UnknownAuthorTypeEmpty ==
  /\ (/\ AnsweredOverCatalog
      /\ params.AuthorType # Nil
      /\ ToLower(Deref(params.AuthorType)) \notin KnownAuthorTypes) =>
        IF recommendFetch # Nil /\ Deref(recommendFetch).err
        THEN /\ params.Recommend = Ptr(TRUE)
             /\ Deref(response).status = StatusInternalServerError
        ELSE /\ Deref(response).status = StatusOK
             /\ Deref(response).data # Nil
             /\ Deref(Deref(Deref(response).data).List) = <<>>
  /\ KnownAuthorTypeExact

\* C5 witness: an unknown author type emptied the listing of a catalog that
\* holds entries.
C5_Witness ==
  /\ AnsweredOverCatalog
  /\ params.AuthorType # Nil
  /\ ToLower(Deref(params.AuthorType)) \notin KnownAuthorTypes
  /\ DOMAIN Deref(catalogFetch).catalog # {}
  /\ Deref(response).status = StatusOK
  /\ Deref(Deref(Deref(response).data).List) = <<>>

\* C8: an entry whose store info fails is not in the list, an installed app
\* whose store info fails is not among the installed identifiers, and neither
\* fails the query.
C8_FailedProjectionExcluded ==
  AnsweredOverCatalog =>
    /\ (recommendFetch = Nil \/ ~Deref(recommendFetch).err) =>
          Deref(response).status = StatusOK
    /\ Deref(response).status = StatusOK =>
         /\ \A id \in DOMAIN Deref(Deref(Deref(response).data).List) :
              ~Deref(catalogFetch).catalog[id].storeInfoErr
         /\ Deref(Deref(response).data).Installed # Nil =>
              \A id \in Deref(Deref(Deref(response).data).Installed) :
                \E i \in 1..Len(Deref(installedFetch).apps) :
                  /\ ~Deref(installedFetch).apps[i].storeInfoErr
                  /\ Deref(installedFetch).apps[i].storeInfo # Nil
                  /\ Deref(Deref(installedFetch).apps[i].storeInfo).StoreAppID = Ptr(id)

\* C9: a failed catalog fetch, or a failed recommendation fetch under a true
\* recommended flag, ends the query in a server error without data; without a
\* true flag the recommendation list is not fetched and the query succeeds.
C9_FetchFailureIsServerError ==
  response # Nil =>
    /\ Deref(catalogFetch).err =>
         /\ Deref(response).status = StatusInternalServerError
         /\ Deref(response).data = Nil
         /\ recommendFetch = Nil
    /\ (recommendFetch # Nil /\ Deref(recommendFetch).err) =>
         /\ Deref(response).status = StatusInternalServerError
         /\ Deref(response).data = Nil
    /\ recommendFetch # Nil => params.Recommend = Ptr(TRUE)
    /\ (params.Recommend = Ptr(TRUE) /\ ~Deref(catalogFetch).err) => recommendFetch # Nil
    /\ (params.Recommend # Ptr(TRUE) /\ ~Deref(catalogFetch).err) =>
         /\ Deref(response).status = StatusOK
         /\ Deref(response).data # Nil

\* C9 witness: the recommendation fetch failed under a true flag and the
\* query ended in a server error.
C9_Witness ==
  /\ response # Nil
  /\ params.Recommend = Ptr(TRUE)
  /\ recommendFetch # Nil
  /\ Deref(recommendFetch).err
  /\ Deref(response).status = StatusInternalServerError

(* ------------------------- claims: the filters ------------------------- *)

\* C6: category then author type gives the entries author type then category
\* gives, and they are entries of the catalog given.
C6_FiltersCommute ==
  filtered # Nil =>
    /\ Deref(filtered).categoryThenAuthor = Deref(filtered).authorThenCategory
    /\ DOMAIN Deref(filtered).categoryThenAuthor \subseteq DOMAIN filterArgs.catalog
    /\ \A id \in DOMAIN Deref(filtered).categoryThenAuthor :
         Deref(filtered).categoryThenAuthor[id] = filterArgs.catalog[id]

\* C6 witness: both filters were given and narrowed a catalog to some of its
\* entries.
C6_Witness ==
  /\ filtered # Nil
  /\ filterArgs.category # <<>>
  /\ DOMAIN Deref(filtered).categoryThenAuthor # {}
  /\ DOMAIN Deref(filtered).categoryThenAuthor # DOMAIN filterArgs.catalog

(* --------------------- claims: the category listing -------------------- *)

\* The place of a name in ascending byte order.
NameRank(name) == CHOOSE i \in 1..Len(CategoryNames) : CategoryNames[i] = name

\* The counts of the source categories added up, an absent one as zero.
RECURSIVE SumOfCounts(_, _)
SumOfCounts(counts, S) ==
  IF S = {} THEN 0
  ELSE LET n == CHOOSE n \in S : TRUE
       IN (IF counts[n] = Nil THEN 0 ELSE Deref(counts[n])) + SumOfCounts(counts, S \ {n})

\* C7: the listing starts with "All" carrying the sum of the source counts,
\* goes on with the source categories in ascending byte order of their names,
\* and numbers every element by its zero-based position.
C7_CategoryListShape ==
  (categoryResponse # Nil /\ ~categoryFetch.err) =>
    LET data == Deref(Deref(categoryResponse).data)
        counts == categoryFetch.counts
    IN /\ Deref(categoryResponse).status = StatusOK
       /\ Len(data) = Cardinality(DOMAIN counts) + 1
       /\ data[1].Name = Ptr(<<"A","l","l">>)
       /\ data[1].Count = Ptr(SumOfCounts(counts, DOMAIN counts))
       /\ \A k \in 1..Len(data) : data[k].ID = Ptr(k - 1)
       /\ { Deref(data[k].Name) : k \in 2..Len(data) } = DOMAIN counts
       /\ \A k \in 2..Len(data) : data[k].Count = counts[Deref(data[k].Name)]
       /\ \A i, j \in 2..Len(data) :
            i < j => NameRank(Deref(data[i].Name)) < NameRank(Deref(data[j].Name))

\* C7 witness: a listing over all the source categories, one without a count,
\* and a sum above zero.
C7_Witness ==
  /\ categoryResponse # Nil
  /\ ~categoryFetch.err
  /\ DOMAIN categoryFetch.counts = NameSet
  /\ \E n \in NameSet : categoryFetch.counts[n] = Nil
  /\ Deref(Deref(Deref(categoryResponse).data)[1].Count) > 0

====
